---- MODULE Spec2Model ----
(***************************************************************************)
(* A model of the ML prefetcher's vocabulary (vocab.py), its vocabulary    *)
(* builder (vocab.py, build_vocabs) and the routing loop of the clustering *)
(* LSTM's forward pass (clustering_lstm.py).                               *)
(*                                                                         *)
(* Three specifications share the module, one per component:               *)
(*   SpecVocab  a Vocab under an arbitrary sequence of add_key calls       *)
(*   SpecBuild  build_vocabs applied to a bounded family of training sets  *)
(*   SpecFwd    ClusteringLSTM.forward / predict on bounded inputs         *)
(***************************************************************************)
EXTENDS Integers, Sequences, FiniteSets, TLC

VARIABLES
    \* ---- Vocab under test (SpecVocab)
    vocab,          \* the Vocab object: key_to_val, val_to_key, counter
    added,          \* history: the keys add_key has been called with
    \* ---- build_vocabs (SpecBuild)
    data,           \* the training DataFrame, a sequence of rows
    has_cluster,    \* whether the DataFrame has a "cluster" column
    bpc,            \* position of build_vocabs: "load" | "built"
    pc_vocab, delta_vocab, target_vocab,
    \* ---- ClusteringLSTM.forward / predict (SpecFwd)
    num_output_delta,   \* the model: output width of each cluster's head
    entry,          \* "forward" | "predict"
    pc, delta, clusters,    \* X: PC codes, input-delta codes, cluster labels
    target,         \* NoTarget, or <<t>> for a target tensor t
    fpc,            \* position: "call" | "route" | "loop" | "returned" | "raised"
    lstm_out,       \* the LSTM's output, one hidden value per position
    indices,        \* per cluster, the positions routed to it
    cluster,        \* the loop variable of the loop over cluster_networks
    loss, outputs,  \* the accumulators of forward
    err,            \* the exception raised, and the cluster it was raised for
    invoked,        \* history: the clusters whose head was called
    loss_terms,     \* history: <<cluster, term>> for every term added to loss
    written         \* history: <<position, cluster>> for every row written

vocabVars == <<vocab, added>>
buildVars == <<data, has_cluster, bpc, pc_vocab, delta_vocab, target_vocab>>
inputVars == <<num_output_delta, entry, pc, delta, clusters, target>>
fwdVars == <<inputVars, fpc, lstm_out, indices, cluster, loss, outputs, err,
             invoked, loss_terms, written>>
vars == <<vocabVars, buildVars, fwdVars>>

----------------------------------------------------------------------------
(* Bounds *)

NumKeys == 5
Keys == 0 .. (NumKeys - 1)

\* build_vocabs' parameters num_clusters and num_output_deltas
NumClusters == 2
NumOutputDeltas == 1
Clusters == 0 .. (NumClusters - 1)

\* the values a training row may hold
PCs == {0, 1}
DeltaIns == {0, 1}
DeltaOuts == {0, 1, 2}

\* a training set is at most MaxRuns runs of identical rows
MaxRuns == 2

\* the model's num_pred, and the longest sequence passed to forward
NumPred == 2
MaxT == 2

----------------------------------------------------------------------------
(* vocab.py: class Vocab *)

\* get_key's default for a value that is not a code
None == -1

\* Vocab.__init__ before any key is added
EmptyVocab == [key_to_val |-> <<>>, val_to_key |-> <<>>, counter |-> 0]

\* Vocab.__len__
len(v) == v.counter

\* a slip: unknown keys mapped to code 0 instead of the reserved code
get_val_default_zero(v, key) ==
    IF key \in DOMAIN v.key_to_val THEN v.key_to_val[key] ELSE 0

\* Vocab.get_val: dict.get(key, self.counter)
get_val(v, key) ==
    IF key \in DOMAIN v.key_to_val THEN v.key_to_val[key] ELSE v.counter

\* Vocab.get_key: dict.get(val, None)
get_key(v, val) ==
    IF val \in DOMAIN v.val_to_key THEN v.val_to_key[val] ELSE None

\* a slip: no membership test, so a repeated key is given a fresh code
add_key_unguarded(v, key) ==
    [key_to_val |-> (key :> v.counter) @@ v.key_to_val,
     val_to_key |-> (v.counter :> key) @@ v.val_to_key,
     counter    |-> v.counter + 1]

\* a slip: the counter is advanced outside the membership test
add_key_always_counts(v, key) ==
    IF key \notin DOMAIN v.key_to_val
    THEN [key_to_val |-> (key :> v.counter) @@ v.key_to_val,
          val_to_key |-> (v.counter :> key) @@ v.val_to_key,
          counter    |-> v.counter + 1]
    ELSE [v EXCEPT !.counter = v.counter + 1]

\* Vocab.add_key, as a function of the object
Vocab_add_key(v, key) ==
    IF key \notin DOMAIN v.key_to_val
    THEN [key_to_val |-> (key :> v.counter) @@ v.key_to_val,
          val_to_key |-> (v.counter :> key) @@ v.val_to_key,
          counter    |-> v.counter + 1]
    ELSE v

\* Vocab.__init__(all_keys): add_key for each key in order
RECURSIVE VocabFrom(_, _)
VocabFrom(v, all_keys) ==
    IF all_keys = <<>> THEN v
    ELSE VocabFrom(Vocab_add_key(v, Head(all_keys)), Tail(all_keys))

Vocab(all_keys) == VocabFrom(EmptyVocab, all_keys)

----------------------------------------------------------------------------
(* SpecVocab: one Vocab, any sequence of add_key calls *)

NoTarget == <<>>
NoErr == [kind |-> "none", cluster |-> None]

FwdIdle ==
    /\ num_output_delta = <<>>
    /\ entry = "idle"
    /\ pc = <<>> /\ delta = <<>> /\ clusters = <<>>
    /\ target = NoTarget
    /\ fpc = "idle"
    /\ lstm_out = <<>>
    /\ indices = <<>>
    /\ cluster = 0
    /\ loss = 0
    /\ outputs = <<>>
    /\ err = NoErr
    /\ invoked = {}
    /\ loss_terms = {}
    /\ written = {}

BuildIdle ==
    /\ data = <<>>
    /\ has_cluster = FALSE
    /\ bpc = "idle"
    /\ pc_vocab = EmptyVocab
    /\ delta_vocab = EmptyVocab
    /\ target_vocab = EmptyVocab

InitVocab ==
    /\ vocab = EmptyVocab
    /\ added = {}
    /\ BuildIdle
    /\ FwdIdle

add_key(key) ==
    /\ vocab' = Vocab_add_key(vocab, key)
    /\ added' = added \cup {key}
    /\ UNCHANGED <<buildVars, fwdVars>>

NextVocab == \E key \in Keys : add_key(key)

SpecVocab == InitVocab /\ [][NextVocab]_vars

\* C1: for every key add_key was never called with, get_val returns exactly
\* len(vocab), the fallback code, in every reachable state (so before and
\* after other keys are added); the lookup is total, it has no failing case.
C1_UnknownKeyGetsFallback ==
    \A key \in Keys \ added : get_val(vocab, key) = len(vocab)

\* a state where keys were added and a never-added key is looked up
C1_Witness ==
    /\ Cardinality(added) >= 2
    /\ \E key \in Keys \ added : get_val(vocab, key) = Cardinality(added)

\* C2: the code of an added key never changes in a later state, whatever
\* key is added next (the same key included), and get_key(get_val(key)) is
\* the key in every state.
C2_CodeStableAndInvertible ==
    /\ [](\A key \in added : get_key(vocab, get_val(vocab, key)) = key)
    /\ [][\A key \in added : get_val(vocab', key) = get_val(vocab, key)]_vars

\* the first key added still has code 0 after two more keys were added
C2_Witness ==
    /\ Cardinality(added) >= 3
    /\ \E key \in added :
          get_val(vocab, key) = 0 /\ get_key(vocab, 0) = key

\* C3: the assigned codes are exactly 0 .. len-1 without duplicates, len is
\* the number of distinct keys added, adding a present key changes nothing,
\* and get_key answers None for every code outside 0 .. len-1, len included.
C3_CodesAreDenseRange ==
    /\ DOMAIN vocab.key_to_val = added
    /\ {vocab.key_to_val[key] : key \in added} = 0 .. (len(vocab) - 1)
    /\ \A k1, k2 \in added :
          vocab.key_to_val[k1] = vocab.key_to_val[k2] => k1 = k2
    /\ len(vocab) = Cardinality(added)
    /\ \A key \in added : Vocab_add_key(vocab, key) = vocab
    /\ \A val \in (-2 .. (NumKeys + 1)) \ (0 .. (len(vocab) - 1)) :
          get_key(vocab, val) = None
    /\ \A val \in 0 .. (len(vocab) - 1) : get_key(vocab, val) \in added

\* three distinct keys added, so codes 0, 1, 2 are taken and 3 is the fallback
C3_Witness ==
    /\ Cardinality(added) = 3
    /\ len(vocab) = 3
    /\ get_key(vocab, 2) \in added
    /\ get_key(vocab, 3) = None

----------------------------------------------------------------------------
(* vocab.py: make_output_vocab, build_vocabs *)

\* the threshold of build_vocabs' filter on input deltas
MIN_COUNT == 10

Min(a, b) == IF a <= b THEN a ELSE b

\* data[name]: one column of the DataFrame
Column(d, name) == [i \in 1 .. Len(d) |-> d[i][name]]

\* the distinct values of a Series
Distinct(s) == {s[i] : i \in DOMAIN s}

\* how often x occurs in a Series
Count(s, x) == Cardinality({i \in DOMAIN s : s[i] = x})

\* Series.drop_duplicates: the values in first-seen order
RECURSIVE drop_duplicates(_)
drop_duplicates(s) ==
    IF s = <<>> THEN <<>>
    ELSE LET front == drop_duplicates(SubSeq(s, 1, Len(s) - 1))
             last  == s[Len(s)]
         IN  IF last \in Distinct(front) THEN front ELSE Append(front, last)

\* the orderings of a finite set
Orderings(S) ==
    {o \in [1 .. Cardinality(S) -> S] : \A x \in S : \E i \in DOMAIN o : o[i] = x}

\* Series.value_counts: the distinct values by descending count. The order
\* among equal counts is the library's choice, so every such order is a result.
value_counts(s) ==
    {o \in Orderings(Distinct(s)) :
        \A i, j \in DOMAIN o : i < j => Count(s, o[i]) >= Count(s, o[j])}

\* a slip: a strict comparison in the filter
is_common_strict(count) == count > MIN_COUNT

\* .loc[lambda count: count >= 10]
is_common(count) == count >= MIN_COUNT

\* value_counts().loc[count >= 10].keys().tolist(), for one order of the counts
common_keys(s, o) == SelectSeq(o, LAMBDA x : is_common(Count(s, x)))

\* a slip: one entry too many is kept
nlargest_one_more(o, n) == SubSeq(o, 1, Min(n + 1, Len(o)))

\* Series.nlargest(n) of a Series already in descending order: its first n
nlargest(o, n) == SubSeq(o, 1, Min(n, Len(o)))

\* make_output_vocab: every Vocab it may return
make_output_vocab(delta_out, num_output_deltas) ==
    {Vocab(nlargest(o, num_output_deltas)) : o \in value_counts(delta_out)}

\* data.loc[data.cluster == cluster, "delta_out"]
cluster_delta_out(d, label) ==
    Column(SelectSeq(d, LAMBDA row : row.cluster = label), "delta_out")

----------------------------------------------------------------------------
(* SpecBuild: build_vocabs on a bounded family of training sets *)

RunLens == {1, MIN_COUNT - 1}

\* the rows of a DataFrame with (TRUE) or without (FALSE) a cluster column;
\* in the training sets explored each PC issues one input delta
Rows(with_cluster) ==
    {row \in [pc : PCs, delta_in : DeltaIns, delta_out : DeltaOuts,
              cluster : IF with_cluster THEN Clusters ELSE {None}] :
        row.pc = row.delta_in}

Runs(with_cluster) == [row : Rows(with_cluster), n : RunLens]

RECURSIVE Expand(_)
Expand(runs) ==
    IF runs = <<>> THEN <<>>
    ELSE [i \in 1 .. Head(runs).n |-> Head(runs).row] \o Expand(Tail(runs))

DataFrames(with_cluster) ==
    {Expand(runs) :
        runs \in UNION {[1 .. k -> Runs(with_cluster)] : k \in 0 .. MaxRuns}}

VocabIdle ==
    /\ vocab = EmptyVocab
    /\ added = {}

InitBuild ==
    /\ VocabIdle
    /\ FwdIdle
    /\ has_cluster \in BOOLEAN
    /\ data \in DataFrames(has_cluster)
    /\ bpc = "load"
    /\ pc_vocab = EmptyVocab
    /\ delta_vocab = EmptyVocab
    /\ target_vocab = EmptyVocab

\* build_vocabs(data, NumClusters, NumOutputDeltas) for a frame with cluster labels
build_vocabs_clustered ==
    /\ bpc = "load"
    /\ has_cluster
    /\ pc_vocab' = Vocab(drop_duplicates(Column(data, "pc")))
    /\ \E o \in value_counts(Column(data, "delta_in")) :
          delta_vocab' = Vocab(common_keys(Column(data, "delta_in"), o))
    /\ target_vocab' \in
          {tv \in [Clusters ->
                     UNION {make_output_vocab(cluster_delta_out(data, c),
                                              NumOutputDeltas) : c \in Clusters}] :
              \A c \in Clusters :
                  tv[c] \in make_output_vocab(cluster_delta_out(data, c),
                                              NumOutputDeltas)}
    /\ bpc' = "built"
    /\ UNCHANGED <<vocabVars, fwdVars, data, has_cluster>>

\* build_vocabs for a frame without cluster labels: one output vocabulary
build_vocabs_single ==
    /\ bpc = "load"
    /\ ~has_cluster
    /\ pc_vocab' = Vocab(drop_duplicates(Column(data, "pc")))
    /\ \E o \in value_counts(Column(data, "delta_in")) :
          delta_vocab' = Vocab(common_keys(Column(data, "delta_in"), o))
    /\ target_vocab' \in
          make_output_vocab(Column(data, "delta_out"), NumOutputDeltas)
    /\ bpc' = "built"
    /\ UNCHANGED <<vocabVars, fwdVars, data, has_cluster>>

NextBuild == build_vocabs_clustered \/ build_vocabs_single

SpecBuild == InitBuild /\ [][NextBuild]_vars

\* the keys a Vocab admits
Admitted(v) == DOMAIN v.key_to_val

\* C4: the input-delta vocabulary build_vocabs returns admits exactly the
\* input-delta values that occur at least 10 times in the training set.
C4_InputDeltaPrunedAtTen ==
    bpc = "built" =>
        \A x \in DeltaIns :
            x \in Admitted(delta_vocab) <=> Count(Column(data, "delta_in"), x) >= 10

\* a training set in which one value is seen exactly 10 times and admitted
C4_Witness ==
    /\ bpc = "built"
    /\ \E x \in DeltaIns :
          /\ Count(Column(data, "delta_in"), x) = 10
          /\ Admitted(delta_vocab) = {x}
          /\ get_val(delta_vocab, x) = 0

----------------------------------------------------------------------------
(* clustering_lstm.py: ClusteringLSTM.forward, predict *)

\* Positions are numbered from 1 here and from 0 in the code.

\* the values a hidden state takes (the LSTM itself is the library's)
Hidden == {0, 1}

\* the widths a head is built with: one below num_pred, one above
Widths == {NumPred - 1, NumPred + 1}

\* the codes a target tensor may hold
TargetCodes == {0, NumPred}

RECURSIVE Factorial(_)
Factorial(n) == IF n <= 1 THEN 1 ELSE n * Factorial(n - 1)

\* losses are kept as multiples of 1/LossScale, so that a mean over up to
\* MaxT positions is exact
LossScale == Factorial(MaxT)

\* what a loss becomes once a mean over no element was taken
NaN == -1

RECURSIVE SumSeq(_)
SumSeq(s) == IF s = <<>> THEN 0 ELSE Head(s) + SumSeq(Tail(s))

RECURSIVE SortedSeq(_)
SortedSeq(S) ==
    IF S = {} THEN <<>>
    ELSE LET m == CHOOSE x \in S : \A y \in S : x <= y
         IN  <<m>> \o SortedSeq(S \ {m})

\* nn.Linear(hidden_dim, num_outputs) of one cluster, on one hidden state:
\* a fixed weight and bias per cluster and output code (dropout is the
\* identity at p = 0 and in eval mode)
network(c, width, h) ==
    [code \in 0 .. (width - 1) |->
        ((2 * c + code + 1) % 3) * h + ((c + 2 * code) % 3)]

\* F.log_softmax over the code dimension: every logit of the row less the
\* row's log-sum-exp, which lies above the row's maximum
log_softmax(row) ==
    LET top == CHOOSE x \in {row[code] : code \in DOMAIN row} :
                   \A code \in DOMAIN row : row[code] <= x
    IN  [code \in DOMAIN row |-> row[code] - (top + 1)]

\* a slip: the first rows are taken instead of the routed ones
gather_prefix(tensor, orig_indices) ==
    [i \in 1 .. Len(orig_indices) |-> tensor[i]]

\* tensor[orig_indices]
gather(tensor, orig_indices) ==
    [i \in 1 .. Len(orig_indices) |-> tensor[orig_indices[i]]]

\* whether tensor[orig_indices] raises an IndexError
gather_raises(tensor, orig_indices) ==
    \E i \in DOMAIN orig_indices : orig_indices[i] > Len(tensor)

\* F.nll_loss(probabilities, targets) with its default mean reduction
nll_loss(probabilities, targets) ==
    IF Len(targets) = 0 THEN NaN
    ELSE (SumSeq([i \in 1 .. Len(targets) |-> 0 - probabilities[i][targets[i]]])
            * LossScale) \div Len(targets)

\* whether F.nll_loss raises: a target outside the row's codes
nll_loss_raises(probabilities, targets) ==
    \E i \in DOMAIN targets : targets[i] \notin DOMAIN probabilities[i]

\* a slip: the loss is assigned, not accumulated
loss_assign(total, term) == term

\* loss += term
loss_add(total, term) ==
    IF total = NaN \/ term = NaN THEN NaN ELSE total + term

\* torch.topk(row, k, sorted=False)[1]: the codes of k largest entries. Ties
\* are the library's choice, so every such selection is a result; the order
\* of the k codes is unspecified and a row is kept in ascending order of code.
topk(row, k) ==
    {SortedSeq(S) : S \in {T \in SUBSET DOMAIN row :
        /\ Cardinality(T) = k
        /\ \A x \in T, y \in (DOMAIN row) \ T : row[x] >= row[y]}}

\* torch.topk raises when k exceeds the row's width
topk_raises(width, k) == k > width

\* outputs[orig_indices] = preds
scatter(outs, orig_indices, preds) ==
    [p \in DOMAIN outs |->
        IF \E i \in DOMAIN orig_indices : orig_indices[i] = p
        THEN preds[CHOOSE i \in DOMAIN orig_indices : orig_indices[i] = p]
        ELSE outs[p]]

\* the routing loop: indices[cluster.item()].append(orig), in order
RECURSIVE route(_, _)
route(idx, labels) ==
    IF labels = <<>> THEN idx
    ELSE LET front == route(idx, SubSeq(labels, 1, Len(labels) - 1))
             c     == labels[Len(labels)]
         IN  [front EXCEPT ![c] = Append(front[c], Len(labels))]

\* a slip: the test for an empty cluster looks at the list of all clusters
is_empty_never(orig_indices) == FALSE

\* len(orig_indices) == 0
is_empty(orig_indices) == Len(orig_indices) = 0

----------------------------------------------------------------------------
(* SpecFwd: one call of forward or predict on bounded inputs *)

SeqsUpTo(S, n) == UNION {[1 .. k -> S] : k \in 1 .. n}

InitFwd ==
    /\ VocabIdle
    /\ BuildIdle
    /\ num_output_delta \in [Clusters -> Widths]
    /\ pc \in SeqsUpTo({0}, MaxT)
    /\ delta \in SeqsUpTo({0}, MaxT)
    /\ clusters \in {<<>>} \cup SeqsUpTo(Clusters, MaxT)
    /\ entry \in {"forward", "predict"}
    /\ target \in IF entry = "predict" THEN {NoTarget}
                  ELSE {NoTarget} \cup {<<t>> : t \in SeqsUpTo(TargetCodes, MaxT)}
    /\ fpc = "call"
    /\ lstm_out = <<>>
    /\ indices = <<>>
    /\ cluster = 0
    /\ loss = 0
    /\ outputs = <<>>
    /\ err = NoErr
    /\ invoked = {}
    /\ loss_terms = {}
    /\ written = {}

Raise(kind, c) ==
    /\ fpc' = "raised"
    /\ err' = [kind |-> kind, cluster |-> c]

\* lines 52-66: embed, concatenate, run the LSTM. torch.cat raises when the
\* two embedded sequences differ in length.
embed_raises ==
    /\ fpc = "call"
    /\ Len(pc) # Len(delta)
    /\ Raise("cat", None)
    /\ UNCHANGED <<vocabVars, buildVars, inputVars, lstm_out, indices, cluster,
                   loss, outputs, invoked, loss_terms, written>>

embed_and_lstm ==
    /\ fpc = "call"
    /\ Len(pc) = Len(delta)
    /\ lstm_out' \in [1 .. Len(pc) -> Hidden]
    /\ fpc' = "route"
    /\ UNCHANGED <<vocabVars, buildVars, inputVars, indices, cluster, loss,
                   outputs, err, invoked, loss_terms, written>>

\* lines 70-76: build the routing lists, zero the accumulators
route_positions ==
    /\ fpc = "route"
    /\ indices' = route([c \in Clusters |-> <<>>], clusters)
    /\ loss' = 0
    /\ outputs' = [p \in 1 .. Len(pc) |-> [j \in 1 .. NumPred |-> 0]]
    /\ cluster' = 0
    /\ fpc' = "loop"
    /\ UNCHANGED <<vocabVars, buildVars, inputVars, lstm_out, err, invoked,
                   loss_terms, written>>

\* lines 85-86: a cluster without positions is skipped
skip_cluster ==
    /\ fpc = "loop"
    /\ cluster < NumClusters
    /\ is_empty(indices[cluster])
    /\ cluster' = cluster + 1
    /\ UNCHANGED <<vocabVars, buildVars, inputVars, fpc, lstm_out, indices,
                   loss, outputs, err, invoked, loss_terms, written>>

\* lines 88-97: gather, head, log-softmax, loss, top-k, scatter
run_cluster ==
    /\ fpc = "loop"
    /\ cluster < NumClusters
    /\ ~is_empty(indices[cluster])
    /\ LET orig_indices == indices[cluster]
           width == num_output_delta[cluster]
       IN  IF gather_raises(lstm_out, orig_indices)
           THEN /\ Raise("gather", cluster)
                /\ UNCHANGED <<cluster, loss, outputs, invoked, loss_terms, written>>
           ELSE
           LET inputs == gather(lstm_out, orig_indices)
               probabilities ==
                   [i \in DOMAIN inputs |->
                       log_softmax(network(cluster, width, inputs[i]))]
           IN  /\ invoked' = invoked \cup {cluster}
               /\ IF target # NoTarget /\ gather_raises(target[1], orig_indices)
                  THEN /\ Raise("target_index", cluster)
                       /\ UNCHANGED <<cluster, loss, outputs, loss_terms, written>>
                  ELSE IF /\ target # NoTarget
                          /\ nll_loss_raises(probabilities,
                                             gather(target[1], orig_indices))
                  THEN /\ Raise("nll_target", cluster)
                       /\ UNCHANGED <<cluster, loss, outputs, loss_terms, written>>
                  ELSE
                  LET term == IF target = NoTarget THEN 0
                              ELSE nll_loss(probabilities,
                                            gather(target[1], orig_indices))
                  IN  /\ loss' = IF target = NoTarget THEN loss
                                 ELSE loss_add(loss, term)
                      /\ loss_terms' = IF target = NoTarget THEN loss_terms
                                       ELSE loss_terms \cup {<<cluster, term>>}
                      /\ IF topk_raises(width, NumPred)
                         THEN /\ Raise("topk", cluster)
                              /\ UNCHANGED <<cluster, outputs, written>>
                         ELSE /\ \E preds \in [DOMAIN inputs ->
                                      UNION {topk(probabilities[i], NumPred) :
                                                i \in DOMAIN inputs}] :
                                    /\ \A i \in DOMAIN inputs :
                                          preds[i] \in topk(probabilities[i], NumPred)
                                    /\ outputs' = scatter(outputs, orig_indices, preds)
                              /\ written' = written \cup
                                    {<<orig_indices[i], cluster>> :
                                        i \in DOMAIN orig_indices}
                              /\ cluster' = cluster + 1
                              /\ UNCHANGED <<fpc, err>>
    /\ UNCHANGED <<vocabVars, buildVars, inputVars, lstm_out, indices>>

\* line 99: forward returns (loss, outputs, state)
forward_return ==
    /\ fpc = "loop"
    /\ cluster = NumClusters
    /\ entry = "forward"
    /\ fpc' = "returned"
    /\ UNCHANGED <<vocabVars, buildVars, inputVars, lstm_out, indices, cluster,
                   loss, outputs, err, invoked, loss_terms, written>>

\* lines 101-104: predict returns forward's (outputs, state) and drops the loss
predict_return ==
    /\ fpc = "loop"
    /\ cluster = NumClusters
    /\ entry = "predict"
    /\ fpc' = "returned"
    /\ UNCHANGED <<vocabVars, buildVars, inputVars, lstm_out, indices, cluster,
                   loss, outputs, err, invoked, loss_terms, written>>

NextFwd ==
    \/ embed_raises
    \/ embed_and_lstm
    \/ route_positions
    \/ skip_cluster
    \/ run_cluster
    \/ forward_return
    \/ predict_return

SpecFwd == InitFwd /\ [][NextFwd]_vars

\* the positions of the batch that carry label c
PositionsOf(c) == {p \in DOMAIN clusters : clusters[p] = c}

\* the log-probabilities of cluster c's head called directly on the hidden
\* state of position p
DirectLogProbs(c, p) ==
    log_softmax(network(c, num_output_delta[c], lstm_out[p]))

\* C6: every labelled position is in the routing list of exactly one
\* cluster, the one its label names, and the lists keep the original order;
\* when forward returns, the row at position p is a top-num_pred selection
\* of the head of cluster clusters[p] called directly on the hidden state of
\* p (so with one label c throughout, the rows are those of c's head alone).
C6_RoutedEqualsDirect ==
    /\ fpc \in {"loop", "returned"} =>
          /\ \A p \in DOMAIN clusters : \A c \in Clusters :
                (\E i \in DOMAIN indices[c] : indices[c][i] = p) <=> c = clusters[p]
          /\ \A c \in Clusters : \A i, j \in DOMAIN indices[c] :
                i < j => indices[c][i] < indices[c][j]
    /\ fpc = "returned" =>
          \A p \in DOMAIN clusters :
              outputs[p] \in topk(DirectLogProbs(clusters[p], p), NumPred)

\* forward returned for two positions routed out of order (the later
\* cluster first) whose hidden states and rows differ
C6_Witness ==
    /\ fpc = "returned"
    /\ Len(clusters) = 2
    /\ clusters[1] > clusters[2]
    /\ lstm_out[1] # lstm_out[2]
    /\ outputs[1] # outputs[2]

\* C7: a cluster without positions in the batch is skipped without effect,
\* with or without a target: its head is never called, it adds no term to
\* the loss, no row is written for it and no exception is raised for it.
C7_EmptyClusterSkipped ==
    \A k \in Clusters :
        PositionsOf(k) = {} =>
            /\ k \notin invoked
            /\ \A lt \in loss_terms : lt[1] # k
            /\ \A w \in written : w[2] # k
            /\ err.cluster # k

\* forward returned with a target after the loop passed an empty cluster
\* and ran a later, non-empty one
C7_Witness ==
    /\ fpc = "returned"
    /\ target # NoTarget
    /\ \E k, c \in Clusters :
          /\ k < c
          /\ PositionsOf(k) = {}
          /\ c \in invoked
          /\ \E lt \in loss_terms : lt[1] = c

RECURSIVE SumOver(_, _)
SumOver(S, f) ==
    IF S = {} THEN 0
    ELSE LET x == CHOOSE y \in S : TRUE
         IN  f[x] + SumOver(S \ {x}, f)

\* the mean negative log-likelihood of cluster c, computed on its own from
\* the batch: over the positions labelled c, against their targets
ClusterNll(c) ==
    (SumOver(PositionsOf(c),
             [p \in PositionsOf(c) |-> 0 - DirectLogProbs(c, p)[target[1][p]]])
        * LossScale) \div Cardinality(PositionsOf(c))

\* C8: when forward returns with a target, the loss is the sum over the
\* clusters that have a position of each cluster's own mean negative
\* log-likelihood; without a target, or with no cluster contributing, the
\* loss returned is 0, and the loss computation raises nothing then.
C8_LossIsSumOfClusterLosses ==
    LET contributing == {c \in Clusters : PositionsOf(c) # {}}
    IN  /\ fpc = "returned" =>
              loss = IF target = NoTarget THEN 0
                     ELSE SumOver(contributing,
                                  [c \in contributing |-> ClusterNll(c)])
        /\ (target = NoTarget \/ contributing = {}) =>
              err.kind \notin {"target_index", "nll_target"}

\* forward returned a loss to which two clusters contributed
C8_Witness ==
    /\ fpc = "returned"
    /\ target # NoTarget
    /\ \E lt1, lt2 \in loss_terms :
          /\ lt1[1] # lt2[1]
          /\ lt1[2] # lt2[2]
          /\ loss = lt1[2] + lt2[2]

\* the four sequences of a call have one length
EqualLengths ==
    /\ Len(pc) = Len(delta)
    /\ Len(pc) = Len(clusters)
    /\ target # NoTarget => Len(pc) = Len(target[1])

\* C9: whenever the PC, input-delta, cluster-label and target sequences are
\* not all of one length, forward raises instead of returning.
C9_ShapeMismatchIsFatal ==
    ~EqualLengths => fpc # "returned"

\* every target code lies in the code space of its position's cluster
TargetsInCodeSpace ==
    target # NoTarget =>
        \A p \in DOMAIN target[1] \cap DOMAIN clusters :
            target[1][p] \in 0 .. (num_output_delta[clusters[p]] - 1)

\* C10: for equal-length inputs with labels in 0 .. NumClusters-1 and
\* targets in their cluster's code space, forward and predict raise nothing
\* and return one row per position, each of num_pred codes of the code
\* space of that position's cluster, whatever the widths of the heads.
C10_AlwaysOneRowPerPosition ==
    (/\ EqualLengths
     /\ TargetsInCodeSpace
     /\ \A p \in DOMAIN clusters : clusters[p] \in Clusters) =>
        /\ fpc # "raised"
        /\ fpc = "returned" =>
              /\ Len(outputs) = Len(pc)
              /\ \A p \in DOMAIN outputs :
                    /\ Len(outputs[p]) = NumPred
                    /\ \A j \in DOMAIN outputs[p] :
                          outputs[p][j] \in 0 .. (num_output_delta[clusters[p]] - 1)

====
